---- MODULE Spec2Model ----
(***************************************************************************)
(* A model of async_rediscache.types.cache.RedisCache: the public          *)
(* coroutines of the cache, each running under the namespace lock, issuing *)
(* hash commands against a shared store and suspending at every store      *)
(* round-trip and at the lock acquisition.                                 *)
(*                                                                         *)
(* Python values are records [t |-> type, v |-> payload]:                  *)
(*   int   : v is the integer                                              *)
(*   float : v is the number of halves (1.5 is v = 3), which keeps float   *)
(*           addition exact for the amounts used here                      *)
(*   str   : v is the sequence of its characters                           *)
(*   bool  : v is TRUE or FALSE                                            *)
(*   none  : Python's None                                                 *)
(* Typestrings (what the store holds) are sequences: the type prefix       *)
(* followed by the characters of the textual form.                         *)
(***************************************************************************)
EXTENDS Integers, Sequences, FiniteSets, TLC

\* ---------------------------------------------------------------- bounds
\* Total number of public calls made by all tasks in one behaviour.
MaxCalls == 2

\* ---------------------------------------------------------------- values
IntV(n) == [t |-> "int", v |-> n]
FloatV(h) == [t |-> "float", v |-> h]
StrV(s) == [t |-> "str", v |-> s]
BoolV(b) == [t |-> "bool", v |-> b]
NoneVal == [t |-> "none", v |-> 0]

\* Results of calls that raise.
KeyErrorV == [t |-> "KeyError", v |-> 0]
TypeErrorV == [t |-> "TypeError", v |-> 0]
\* What a store command raises when the connection fails.
ConnectionErrorV == [t |-> "ConnectionError", v |-> 0]
IsError(r) == r.t \in {"KeyError", "TypeError", "ConnectionError"}
\* A typestring without a known prefix.
CorruptV == [t |-> "corrupt", v |-> 0]

Tasks == {"t1", "t2", "t3"}
Namespaces == {"nsA", "nsB"}
\* Cache instances; c1 and c2 are bound to the same namespace.
Instances == {"c1", "c2", "c3"}
NamespaceOf(c) == IF c = "c3" THEN "nsB" ELSE "nsA"
\* The cache each task makes its calls on.
InstanceOf(t) == CASE t = "t1" -> "c1" [] t = "t2" -> "c2" [] t = "t3" -> "c3"

Keys == {IntV(1), StrV(<<"1">>)}
SetValues == {IntV(1), StrV(<<"x">>), BoolV(TRUE), FloatV(1)}
Defaults == {NoneVal, IntV(0)}
Amounts == {IntV(1), IntV(2)}
\* increment also takes a negative amount, and decrement the same amount positive.
IncrementAmounts == Amounts \cup {IntV(-5)}
DecrementAmounts == Amounts \cup {IntV(5)}

\* ----------------------------------------------------------- type codec
DigitChar == <<"0", "1", "2", "3", "4", "5", "6", "7", "8", "9">>
DigitVal(c) == (CHOOSE i \in 1..10 : DigitChar[i] = c) - 1

RECURSIVE NatToStr(_)
NatToStr(n) ==
    IF n < 10 THEN <<DigitChar[n + 1]>>
    ELSE NatToStr(n \div 10) \o <<DigitChar[(n % 10) + 1]>>

IntToStr(n) == IF n < 0 THEN <<"-">> \o NatToStr(0 - n) ELSE NatToStr(n)

RECURSIVE StrToNat(_)
StrToNat(s) ==
    IF s = <<>> THEN 0
    ELSE StrToNat(SubSeq(s, 1, Len(s) - 1)) * 10 + DigitVal(s[Len(s)])

StrToInt(s) == IF s # <<>> /\ Head(s) = "-" THEN 0 - StrToNat(Tail(s)) ELSE StrToNat(s)

\* str(float) for a float that is a whole number of halves: "1.5", "-0.5", "2.0".
FloatToStr(h) ==
    LET a == IF h < 0 THEN 0 - h ELSE h
        body == NatToStr(a \div 2) \o <<".">> \o <<IF a % 2 = 1 THEN "5" ELSE "0">>
    IN  IF h < 0 THEN <<"-">> \o body ELSE body

\* float(text) for the texts FloatToStr produces.
StrToFloat(s) ==
    LET neg == s # <<>> /\ Head(s) = "-"
        body == IF neg THEN Tail(s) ELSE s
        dot == CHOOSE i \in 1..Len(body) : body[i] = "."
        whole == StrToNat(SubSeq(body, 1, dot - 1))
        frac == IF body[dot + 1] = "5" THEN 1 ELSE 0
        a == 2 * whole + frac
    IN  IF neg THEN 0 - a ELSE a

BoolToStr(b) == IF b THEN <<"T", "r", "u", "e">> ELSE <<"F", "a", "l", "s", "e">>

\* A prefix per type, for keys (str, int) and for values (str, int, float, bool).
PrefixOf(ty) ==
    CASE ty = "str" -> "s|"
      [] ty = "int" -> "i|"
      [] ty = "float" -> "f|"
      [] ty = "bool" -> "b|"

ToTypestring(x) ==
    <<PrefixOf(x.t)>> \o
        (CASE x.t = "str" -> x.v
           [] x.t = "int" -> IntToStr(x.v)
           [] x.t = "float" -> FloatToStr(x.v)
           [] x.t = "bool" -> BoolToStr(x.v))

FromTypestring(s, types) ==
    LET p == IF s = <<>> THEN "" ELSE Head(s)
        text == IF s = <<>> THEN <<>> ELSE Tail(s)
    IN  CASE p = "s|" /\ "str" \in types -> StrV(text)
          [] p = "i|" /\ "int" \in types -> IntV(StrToInt(text))
          [] p = "f|" /\ "float" \in types -> FloatV(StrToFloat(text))
          [] p = "b|" /\ "bool" \in types -> BoolV(text = BoolToStr(TRUE))
          [] OTHER -> CorruptV

KeyTypes == {"str", "int"}
ValueTypes == {"str", "int", "float", "bool"}

\* A key encoded by its text alone, whatever its type.
_key_to_typestringUntagged(k) == <<PrefixOf("str")>> \o Tail(ToTypestring(k))
_key_to_typestring(k) == ToTypestring(k)
_value_to_typestring(v) == ToTypestring(v)
_key_from_typestring(s) == FromTypestring(s, KeyTypes)
_value_from_typestring(s) == FromTypestring(s, ValueTypes)

\* A hash of the store is a function from field typestrings to value typestrings.
EmptyHash == [f \in {} |-> <<>>]

_dict_from_typestring(h) ==
    [k \in {_key_from_typestring(f) : f \in DOMAIN h} |->
        _value_from_typestring(h[CHOOSE f \in DOMAIN h : _key_from_typestring(f) = k])]

_dict_to_typestring(d) ==
    [f \in {_key_to_typestring(k) : k \in DOMAIN d} |->
        _value_to_typestring(d[CHOOSE k \in DOMAIN d : _key_to_typestring(k) = f])]

\* ------------------------------------------------------- store commands
\* The reply to a command that finds no field (nil).
Nil == <<>>
hget(h, f) == IF f \in DOMAIN h THEN h[f] ELSE Nil
hset(h, f, s) == [g \in DOMAIN h \cup {f} |-> IF g = f THEN s ELSE h[g]]
hdel(h, f) == [g \in DOMAIN h \ {f} |-> h[g]]
hexists(h, f) == f \in DOMAIN h
hgetall(h) == h
hlen(h) == Cardinality(DOMAIN h)
\* A multi-field write that replaces the hash by the fields given.
hmset_dictReplacing(h, d) == d
hmset_dict(h, d) == [g \in DOMAIN h \cup DOMAIN d |-> IF g \in DOMAIN d THEN d[g] ELSE h[g]]

\* ------------------------------------------------------ Python semantics
\* isinstance(value, int) or isinstance(value, float); bool is a subclass of int.
IsIntOrFloat(value) == value.t \in {"int", "bool", "float"}

\* The number of halves a numeric value stands for.
Halves(x) ==
    CASE x.t = "float" -> x.v
      [] x.t = "int" -> 2 * x.v
      [] x.t = "bool" -> IF x.v THEN 2 ELSE 0

\* value + amount: a float if either operand is a float, an int otherwise.
PyAdd(value, amount) ==
    IF value.t = "float" \/ amount.t = "float"
    THEN FloatV(Halves(value) + Halves(amount))
    ELSE IntV((Halves(value) + Halves(amount)) \div 2)

\* -amount
PyNeg(amount) == [amount EXCEPT !.v = 0 - amount.v]

\* ------------------------------------------------------------ the calls
EmptyDict == [k \in {} |-> NoneVal]
UpdateDicts ==
    { [k \in {IntV(1)} |-> IntV(1)],
      [k \in Keys |-> IF k = IntV(1) THEN StrV(<<"x">>) ELSE BoolV(TRUE)] }

NoCall == [op |-> "none", inst |-> "c1", key |-> NoneVal, value |-> NoneVal,
           default |-> NoneVal, amount |-> NoneVal, items |-> EmptyDict]

Call(op, c, k, v, d, a, m) ==
    [op |-> op, inst |-> c, key |-> k, value |-> v, default |-> d, amount |-> a, items |-> m]

CallsThrough(c) ==
    {Call("set", c, k, v, NoneVal, NoneVal, EmptyDict) : k \in Keys, v \in SetValues}
    \cup {Call(op, c, k, NoneVal, d, NoneVal, EmptyDict) : op \in {"get", "pop"}, k \in Keys, d \in Defaults}
    \cup {Call(op, c, k, NoneVal, NoneVal, NoneVal, EmptyDict) : op \in {"delete", "contains"}, k \in Keys}
    \cup {Call(op, c, NoneVal, NoneVal, NoneVal, NoneVal, EmptyDict) : op \in {"items", "length", "to_dict", "clear"}}
    \cup {Call("update", c, NoneVal, NoneVal, NoneVal, NoneVal, m) : m \in UpdateDicts}
    \cup {Call("increment", c, k, NoneVal, NoneVal, a, EmptyDict) : k \in Keys, a \in IncrementAmounts}
    \cup {Call("decrement", c, k, NoneVal, NoneVal, a, EmptyDict) : k \in Keys, a \in DecrementAmounts}

\* The calls a caller may make on each cache instance.
CallsByInstance == [c \in Instances |-> CallsThrough(c)]
CallsOn(c) == CallsByInstance[c]

\* increment left without its @namespace_lock.
NamespaceLockedButIncrement ==
    {"set", "get", "delete", "contains", "items", "length", "to_dict", "clear",
     "pop", "update"}

\* set left without its @namespace_lock.
NamespaceLockedButSet ==
    {"get", "delete", "contains", "items", "length", "to_dict", "clear",
     "pop", "update", "increment"}

\* pop left without its @namespace_lock.
NamespaceLockedButPop ==
    {"set", "get", "delete", "contains", "items", "length", "to_dict", "clear",
     "update", "increment"}

\* The methods wrapped by @namespace_lock (decrement is not: it awaits increment).
NamespaceLocked ==
    {"set", "get", "delete", "contains", "items", "length", "to_dict", "clear",
     "pop", "update", "increment"}

\* The inner methods awaited without acquire_lock=False.
InnerAcquireLockDefault(method) == TRUE

\* The acquire_lock argument a composite method passes to the methods it awaits.
InnerAcquireLock(method) == FALSE

\* decrement awaits increment(key, -amount); every other call runs its own method.
Method(c) == IF c.op = "decrement" THEN "increment" ELSE c.op
\* decrement passing its amount on as it is.
AmountUnnegated(c) == c.amount
Amount(c) == IF c.op = "decrement" THEN PyNeg(c.amount) ELSE c.amount

\* No call ended in the last step.
NoReturn == [task |-> "none", call |-> NoCall, res |-> NoneVal]

\* ---------------------------------------------------------------- state
VARIABLES
    store,      \* namespace -> hash (field typestring -> value typestring)
    lock,       \* namespace -> the task holding the namespace lock, or "free"
    waiters,    \* namespace -> the tasks waiting for the lock, in arrival order
    pc,         \* task -> where its coroutine is suspended ("idle": not in a call)
    call,       \* task -> the call it is making
    local,      \* task -> the local `value` of pop and increment between two commands
    ret,        \* the call that ended in the last step, if one did: task, call, result
    calls,      \* number of calls made so far
    model       \* history: namespace -> key -> the value a plain dict would hold

vars == <<store, lock, waiters, pc, call, local, ret, calls, model>>

Ns(t) == NamespaceOf(call[t].inst)
Field(t) == _key_to_typestring(call[t].key)

NoEntries == [k \in Keys |-> NoneVal]

\* What the store holds when the program starts (it outlives the process):
\* nsA has entries that an earlier run wrote, nsB has never been written.
StoredBefore ==
    [n \in Namespaces |->
        IF n = "nsA"
        THEN _dict_to_typestring([k \in Keys |-> IF k = IntV(1) THEN IntV(1) ELSE StrV(<<"x">>)])
        ELSE EmptyHash]

\* The dict a hash stands for, over the keys of the model.
AsDict(h) ==
    [k \in Keys |-> IF _key_to_typestring(k) \in DOMAIN h
                    THEN _value_from_typestring(h[_key_to_typestring(k)])
                    ELSE NoneVal]

Init ==
    /\ store = StoredBefore
    /\ lock = [n \in Namespaces |-> "free"]
    /\ waiters = [n \in Namespaces |-> <<>>]
    /\ pc = [t \in Tasks |-> "idle"]
    /\ call = [t \in Tasks |-> NoCall]
    /\ local = [t \in Tasks |-> NoneVal]
    /\ ret = NoReturn
    /\ calls = 0
    /\ model = [n \in Namespaces |-> AsDict(store[n])]

\* ------------------------------------------------------ namespace lock
\* The public methods.
Ops == {"set", "get", "delete", "contains", "items", "length", "to_dict", "clear",
        "pop", "update", "increment", "decrement"}

\* A call whose method body has not started: nothing has read its arguments yet.
Entered(op, c) == Call(op, c, NoneVal, NoneVal, NoneVal, NoneVal, EmptyDict)

\* The calls of method op a task may make.
CallsOf(t, op) == {c \in CallsOn(InstanceOf(t)) : c.op = op}

\* The wrapper of @namespace_lock: with acquire_lock (the default) the method
\* runs inside `async with` on the lock of the namespace, so the task queues
\* for the lock; a method that is not wrapped starts at once. The arguments
\* are first read when the method body starts and are drawn then.
Invoke(t, op) ==
    /\ pc[t] = "idle"
    /\ calls < MaxCalls
    /\ calls' = calls + 1
    /\ IF Method(Entered(op, InstanceOf(t))) \in NamespaceLocked
       THEN /\ call' = [call EXCEPT ![t] = Entered(op, InstanceOf(t))]
            /\ pc' = [pc EXCEPT ![t] = "wait"]
            /\ waiters' = [waiters EXCEPT ![NamespaceOf(InstanceOf(t))] = Append(@, t)]
       ELSE /\ \E c \in CallsOf(t, op) : call' = [call EXCEPT ![t] = c]
            /\ pc' = [pc EXCEPT ![t] = "run"]
            /\ UNCHANGED waiters
    /\ ret' = NoReturn
    /\ UNCHANGED <<store, lock, local, model>>

\* The lock granted to any of the waiting tasks.
AcquireAnyWaiter(t, c) ==
    /\ pc[t] = "wait"
    /\ c.op = call[t].op
    /\ lock[Ns(t)] = "free"
    /\ \E i \in 1..Len(waiters[Ns(t)]) : waiters[Ns(t)][i] = t
    /\ lock' = [lock EXCEPT ![Ns(t)] = t]
    /\ waiters' = [waiters EXCEPT ![Ns(t)] = SelectSeq(@, LAMBDA u : u # t)]
    /\ pc' = [pc EXCEPT ![t] = "run"]
    /\ call' = [call EXCEPT ![t] = c]
    /\ ret' = NoReturn
    /\ UNCHANGED <<store, local, calls, model>>

\* The lock is granted to the longest-waiting task once it is free, and the
\* method body starts.
Acquire(t, c) ==
    /\ pc[t] = "wait"
    /\ c.op = call[t].op
    /\ lock[Ns(t)] = "free"
    /\ waiters[Ns(t)] # <<>> /\ Head(waiters[Ns(t)]) = t
    /\ lock' = [lock EXCEPT ![Ns(t)] = t]
    /\ waiters' = [waiters EXCEPT ![Ns(t)] = Tail(@)]
    /\ pc' = [pc EXCEPT ![t] = "run"]
    /\ call' = [call EXCEPT ![t] = c]
    /\ ret' = NoReturn
    /\ UNCHANGED <<store, local, calls, model>>

\* A lock released on return only.
ExitReleasesOnReturn(raised) == ~raised

\* Leaving `async with` releases the lock, on return and on raise alike.
ExitReleases(raised) == TRUE

\* The call of t ends with result r (returned, or raised when r is an error).
Exit(t, r) ==
    /\ pc' = [pc EXCEPT ![t] = "idle"]
    /\ ret' = [task |-> t, call |-> call[t], res |-> r]
    /\ local' = [local EXCEPT ![t] = NoneVal]
    /\ lock' = IF lock[Ns(t)] = t /\ ExitReleases(IsError(r))
               THEN [lock EXCEPT ![Ns(t)] = "free"]
               ELSE lock
    /\ call' = [call EXCEPT ![t] = NoCall]
    /\ UNCHANGED <<waiters, calls>>

Running(t, method) == pc[t] = "run" /\ Method(call[t]) = method

\* Between entering the method and leaving it: a store command is awaited.
InFlight(t) == pc[t] \in {"run", "pop_delete", "increment_set"}

\* The awaited store command raises instead of replying; the error propagates
\* out of the method (and out of the composite method awaiting it).
StoreFails(t) ==
    /\ InFlight(t)
    /\ Exit(t, ConnectionErrorV)
    /\ UNCHANGED <<store, model>>

\* ------------------------------------------------------------- methods
\* A composite method awaiting an inner method with acquire_lock set would
\* queue on the lock it holds itself and never resume.
InnerWait(t) ==
    /\ pc' = [pc EXCEPT ![t] = "inner_wait"]
    /\ waiters' = [waiters EXCEPT ![Ns(t)] = Append(@, t)]
    /\ ret' = NoReturn
    /\ UNCHANGED <<store, lock, call, local, calls, model>>

\* get ignoring its default.
GetResultNoDefault(raw, default) ==
    IF raw = Nil THEN NoneVal ELSE _value_from_typestring(raw)

\* get raising KeyError for a missing key, as a dict lookup would.
GetResultRaising(raw, default) ==
    IF raw = Nil THEN KeyErrorV ELSE _value_from_typestring(raw)

\* What get returns for the reply of hget.
GetResult(raw, default) ==
    IF raw = Nil THEN default ELSE _value_from_typestring(raw)

\* set storing str(value) as a string, whatever the type of value.
SetWriteAsString(h, key, value) ==
    hset(h, _key_to_typestring(key), <<PrefixOf("str")>> \o Tail(_value_to_typestring(value)))

\* set: hset(namespace, key typestring, value typestring).
SetWrite(h, key, value) == hset(h, _key_to_typestring(key), _value_to_typestring(value))

Set(t) ==
    /\ Running(t, "set")
    /\ store' = [store EXCEPT ![Ns(t)] = SetWrite(@, call[t].key, call[t].value)]
    /\ model' = [model EXCEPT ![Ns(t)][call[t].key] = call[t].value]
    /\ Exit(t, NoneVal)

Get(t) ==
    /\ Running(t, "get")
    /\ Exit(t, GetResult(hget(store[Ns(t)], Field(t)), call[t].default))
    /\ UNCHANGED <<store, model>>

\* delete raising KeyError for a missing key, as `del d[key]` would.
DeleteRaising(t) ==
    /\ Running(t, "delete")
    /\ IF hexists(store[Ns(t)], Field(t))
       THEN /\ store' = [store EXCEPT ![Ns(t)] = hdel(@, Field(t))]
            /\ model' = [model EXCEPT ![Ns(t)][call[t].key] = NoneVal]
            /\ Exit(t, IntV(1))
       ELSE /\ Exit(t, KeyErrorV)
            /\ UNCHANGED <<store, model>>

Delete(t) ==
    /\ Running(t, "delete")
    /\ store' = [store EXCEPT ![Ns(t)] = hdel(@, Field(t))]
    /\ model' = [model EXCEPT ![Ns(t)][call[t].key] = NoneVal]
    /\ Exit(t, IntV(IF hexists(store[Ns(t)], Field(t)) THEN 1 ELSE 0))

\* contains answering with the truth of the value get returns.
ContainsByGet(t) ==
    /\ Running(t, "contains")
    /\ Exit(t, BoolV(GetResult(hget(store[Ns(t)], Field(t)), NoneVal)
                        \notin {NoneVal, IntV(0), FloatV(0), StrV(<<>>), BoolV(FALSE)}))
    /\ UNCHANGED <<store, model>>

Contains(t) ==
    /\ Running(t, "contains")
    /\ Exit(t, BoolV(hexists(store[Ns(t)], Field(t))))
    /\ UNCHANGED <<store, model>>

\* items decoding the values of the reply as it decodes the keys.
ItemsOfValuesAsKeys(h) ==
    [k \in {_key_from_typestring(f) : f \in DOMAIN hgetall(h)} |->
        _key_from_typestring(h[CHOOSE f \in DOMAIN h : _key_from_typestring(f) = k])]

\* items: the decoded reply of hgetall; length: the reply of hlen.
ItemsOf(h) == _dict_from_typestring(hgetall(h))
LengthOf(h) == hlen(h)

Items(t) ==
    /\ Running(t, "items")
    /\ Exit(t, [t |-> "items", v |-> ItemsOf(store[Ns(t)])])
    /\ UNCHANGED <<store, model>>

Length(t) ==
    /\ Running(t, "length")
    /\ Exit(t, IntV(LengthOf(store[Ns(t)])))
    /\ UNCHANGED <<store, model>>

\* to_dict awaits items(acquire_lock=False) and builds a dict of its pairs.
ToDict(t) ==
    /\ Running(t, "to_dict")
    /\ IF InnerAcquireLock("to_dict")
       THEN InnerWait(t)
       ELSE /\ Exit(t, [t |-> "dict", v |-> ItemsOf(store[Ns(t)])])
            /\ UNCHANGED <<store, model>>

\* clear deleting one field of the hash.
ClearWriteOneField(st, n) ==
    IF st[n] = EmptyHash THEN st
    ELSE [st EXCEPT ![n] = hdel(@, CHOOSE f \in DOMAIN st[n] : TRUE)]

\* clear flushing the whole store.
ClearWriteFlushAll(st, n) == [m \in Namespaces |-> EmptyHash]

\* clear: delete(namespace), the whole hash.
ClearWrite(st, n) == [st EXCEPT ![n] = EmptyHash]

Clear(t) ==
    /\ Running(t, "clear")
    /\ store' = ClearWrite(store, Ns(t))
    /\ model' = [model EXCEPT ![Ns(t)] = NoEntries]
    /\ Exit(t, NoneVal)

\* pop: value = get(key, default, acquire_lock=False) ...
PopGet(t) ==
    /\ Running(t, "pop")
    /\ IF InnerAcquireLock("pop")
       THEN InnerWait(t)
       ELSE /\ local' = [local EXCEPT ![t] = GetResult(hget(store[Ns(t)], Field(t)), call[t].default)]
            /\ pc' = [pc EXCEPT ![t] = "pop_delete"]
            /\ ret' = NoReturn
            /\ UNCHANGED <<store, lock, waiters, call, calls, model>>

\* ... then delete(key, acquire_lock=False) and return value.
PopDelete(t) ==
    /\ pc[t] = "pop_delete"
    /\ store' = [store EXCEPT ![Ns(t)] = hdel(@, Field(t))]
    /\ model' = [model EXCEPT ![Ns(t)][call[t].key] = NoneVal]
    /\ Exit(t, local[t])

Update(t) ==
    /\ Running(t, "update")
    /\ store' = [store EXCEPT ![Ns(t)] = hmset_dict(@, _dict_to_typestring(call[t].items))]
    /\ model' = [model EXCEPT ![Ns(t)] =
                    [k \in Keys |-> IF k \in DOMAIN call[t].items THEN call[t].items[k] ELSE @[k]]]
    /\ Exit(t, NoneVal)

\* increment starting a missing counter at amount.
IncrementOutcomeDefaultInit(value, amount) ==
    IF value = NoneVal THEN [kind |-> "set", value |-> amount]
    ELSE IF IsIntOrFloat(value) THEN [kind |-> "set", value |-> PyAdd(value, amount)]
    ELSE [kind |-> "raise", value |-> TypeErrorV]

\* increment writing back a value it cannot add to.
IncrementOutcomeRewrite(value, amount) ==
    IF value = NoneVal THEN [kind |-> "raise", value |-> KeyErrorV]
    ELSE IF IsIntOrFloat(value) THEN [kind |-> "set", value |-> PyAdd(value, amount)]
    ELSE [kind |-> "set", value |-> value]

\* What increment does with the value it got: raise KeyError, raise TypeError,
\* or go on to set the incremented value.
IncrementOutcome(value, amount) ==
    IF value = NoneVal THEN [kind |-> "raise", value |-> KeyErrorV]
    ELSE IF IsIntOrFloat(value) THEN [kind |-> "set", value |-> PyAdd(value, amount)]
    ELSE [kind |-> "raise", value |-> TypeErrorV]

\* increment: value = get(key, acquire_lock=False), then the checks.
IncrementGet(t) ==
    /\ Running(t, "increment")
    /\ IF InnerAcquireLock("increment")
       THEN InnerWait(t)
       ELSE LET value == GetResult(hget(store[Ns(t)], Field(t)), NoneVal)
                out == IncrementOutcome(value, Amount(call[t]))
            IN  IF out.kind = "raise"
                THEN /\ Exit(t, out.value)
                     /\ UNCHANGED <<store, model>>
                ELSE /\ local' = [local EXCEPT ![t] = out.value]
                     /\ pc' = [pc EXCEPT ![t] = "increment_set"]
                     /\ ret' = NoReturn
            /\ UNCHANGED <<store, lock, waiters, call, calls, model>>

\* ... then set(key, value, acquire_lock=False).
IncrementSet(t) ==
    /\ pc[t] = "increment_set"
    /\ store' = [store EXCEPT ![Ns(t)] = SetWrite(@, call[t].key, local[t])]
    /\ model' = [model EXCEPT ![Ns(t)][call[t].key] =
                    IF IsIntOrFloat(@) THEN PyAdd(@, Amount(call[t])) ELSE @]
    /\ Exit(t, NoneVal)

\* ------------------------------------------------------- specification
Step(t) ==
    \/ \E c \in CallsOn(InstanceOf(t)) : Acquire(t, c)
    \/ Set(t)
    \/ Get(t)
    \/ Delete(t)
    \/ Contains(t)
    \/ Items(t)
    \/ Length(t)
    \/ ToDict(t)
    \/ Clear(t)
    \/ PopGet(t)
    \/ PopDelete(t)
    \/ Update(t)
    \/ IncrementGet(t)
    \/ IncrementSet(t)

Next ==
    \/ \E t \in Tasks : \E op \in Ops : Invoke(t, op)
    \/ \E t \in Tasks : Step(t)
    \/ \E t \in Tasks : StoreFails(t)

Spec == Init /\ [][Next]_vars

\* Every task that can take a step eventually takes one (the event loop runs
\* every ready coroutine and the store answers every command); nothing obliges
\* a task to make a further call or a command to fail.
FairSpec == Spec /\ \A t \in Tasks : WF_vars(Step(t))

\* ================================================================ claims
Returned == ret.task # "none"
ReturnedNs == NamespaceOf(ret.call.inst)
\* No call is inside its method on namespace n.
Quiet(n) == \A t \in Tasks : InFlight(t) => Ns(t) # n
StoredValue(n, k) == AsDict(store[n])[k]
IsNumber(x) == x.t \in {"int", "float"}

\* C1: no lost update. `model` holds, for each key, the value last written by a
\* set, update, delete, pop or clear with the amount of every increment that
\* has since written added to it. Whenever no call is inside its method on a
\* namespace, every key that holds a number there stores exactly that value:
\* the original plus the sum of all amounts.
C1_NoLostUpdate ==
    \A n \in Namespaces : Quiet(n) =>
        \A k \in Keys : IsNumber(model[n][k]) => StoredValue(n, k) = model[n][k]

\* Two increments of the key 1 of nsA (stored 1), by 1 and by 2, have both
\* returned and the key stores 4.
C1_Witness ==
    /\ Returned /\ ret.call.op = "increment" /\ ret.res = NoneVal
    /\ calls = 2
    /\ \A t \in Tasks : pc[t] = "idle"
    /\ StoredValue("nsA", IntV(1)) = IntV(4)

\* C2: at most one call per namespace is between acquiring the namespace lock
\* and releasing it, so no other call's store command runs between the first
\* and the last command of a pop, an increment or a to_dict.
C2_OneCallPerNamespace ==
    \A n \in Namespaces : Cardinality({t \in Tasks : InFlight(t) /\ Ns(t) = n}) <= 1

\* An increment is between its hget and its hset while another call on the
\* same namespace waits for the lock.
C2_Witness ==
    \E t, u \in Tasks :
        /\ pc[t] = "increment_set" /\ pc[u] = "wait" /\ Ns(u) = Ns(t)
        /\ lock[Ns(t)] = t

\* C3: the lock is released when a call ends with an error: in the state a call
\* has just raised in, the lock of its namespace is free; and from then on every
\* call that waits for that lock (already waiting or made later) completes.
C3_ReleasedOnError ==
    /\ [](Returned /\ IsError(ret.res) => lock[ReturnedNs] = "free")
    /\ \A n \in Namespaces : \A u \in Tasks :
          [](Returned /\ IsError(ret.res) /\ ReturnedNs = n
               => []((pc[u] = "wait" /\ Ns(u) = n) => <>(pc[u] = "idle")))

\* An increment has just raised (KeyError or TypeError) while another call on
\* its namespace is waiting for the lock.
C3_Witness ==
    /\ Returned /\ ret.res \in {KeyErrorV, TypeErrorV}
    /\ \E u \in Tasks : pc[u] = "wait" /\ Ns(u) = ReturnedNs

\* C4: every call that has been made eventually ends, whatever else runs on its
\* namespace: the composite methods do not wait for the lock they hold.
C4_EveryCallReturns ==
    \A t \in Tasks : (pc[t] # "idle") ~> (pc[t] = "idle")

\* A pop has returned its value in nsA after another call had been made there.
C4_Witness ==
    /\ Returned /\ ret.call.op = "pop" /\ ~IsError(ret.res) /\ ReturnedNs = "nsA"
    /\ calls = 2
    /\ \E u \in Tasks : u # ret.task /\ pc[u] = "wait" /\ Ns(u) = "nsA"

\* C5: increment or decrement of a key that is absent raises KeyError at once,
\* writes nothing and leaves every namespace as it was.
C5_MissingKey ==
    [][\A t \in Tasks :
          (IncrementGet(t) /\ ~hexists(store[Ns(t)], Field(t)))
          => /\ ret'.task = t /\ ret'.res = KeyErrorV
             /\ pc'[t] = "idle"
             /\ store' = store]_vars

\* An increment has raised KeyError.
C5_Witness ==
    /\ Returned /\ ret.call.op = "increment" /\ ret.res = KeyErrorV
    /\ ~hexists(store[ReturnedNs], _key_to_typestring(ret.call.key))

\* C6: increment or decrement of a key that stores a string raises TypeError
\* and leaves the stored value and every namespace as it was.
C6_StringValue ==
    [][\A t \in Tasks :
          (IncrementGet(t) /\ hexists(store[Ns(t)], Field(t))
              /\ StoredValue(Ns(t), call[t].key).t = "str")
          => /\ ret'.task = t /\ ret'.res = TypeErrorV
             /\ pc'[t] = "idle"
             /\ store' = store]_vars

\* A decrement of a key that stores a string has raised TypeError and the key
\* still stores the string.
C6_Witness ==
    /\ Returned /\ ret.call.op = "decrement" /\ ret.res = TypeErrorV
    /\ StoredValue(ReturnedNs, ret.call.key) = StrV(<<"x">>)

\* C7: increment or decrement of a key that stores a boolean raises TypeError
\* and the key keeps the boolean.
C7_BooleanValue ==
    [][\A t \in Tasks :
          (IncrementGet(t) /\ hexists(store[Ns(t)], Field(t))
              /\ StoredValue(Ns(t), call[t].key).t = "bool")
          => /\ ret'.task = t /\ ret'.res = TypeErrorV
             /\ pc'[t] = "idle"
             /\ store' = store]_vars

\* C8: get of a key returns the value last set for it, equal and of the same
\* type (`model` holds the value last written for each key).
C8_SetThenGet ==
    [][\A t \in Tasks :
          (Get(t) /\ model[Ns(t)][call[t].key] # NoneVal)
          => /\ ret'.task = t
             /\ ret'.res = model[Ns(t)][call[t].key]]_vars

\* A get has returned 0.5, a float, which only a set can have stored.
C8_Witness ==
    /\ Returned /\ ret.call.op = "get" /\ ret.res = FloatV(1)
    /\ calls = 2

\* C9: pop of a present key returns the stored value and removes the key and
\* nothing else; pop of an absent key returns the default and changes nothing.
C9_Pop ==
    [][\A t \in Tasks :
          PopDelete(t) =>
            LET n == Ns(t)
                h == store[n]
                f == Field(t)
            IN  /\ ret'.task = t
                /\ ret'.res = IF hexists(h, f) THEN StoredValue(n, call[t].key)
                              ELSE call[t].default
                /\ ~hexists(store'[n], f)
                /\ DOMAIN store'[n] = DOMAIN h \ {f}
                /\ \A g \in DOMAIN store'[n] : store'[n][g] = h[g]
                /\ \A m \in Namespaces \ {n} : store'[m] = store[m]
                /\ ~hexists(h, f) => store' = store]_vars

\* A pop of the key 1 of nsA has returned the 1 stored there; the key is gone
\* and the other entry is still there.
C9_Witness ==
    /\ Returned /\ ret.call.op = "pop" /\ ret.call.key = IntV(1) /\ ret.res = IntV(1)
    /\ ReturnedNs = "nsA"
    /\ StoredValue("nsA", IntV(1)) = NoneVal
    /\ StoredValue("nsA", StrV(<<"1">>)) = StrV(<<"x">>)

\* C10: when clear has just returned, and as long as nothing has been written
\* since, length is 0 and items is empty for the namespace, whoever wrote its
\* entries.
C10_Clear ==
    \A n \in Namespaces :
        (\/ Returned /\ ret.call.op = "clear" /\ ~IsError(ret.res) /\ ReturnedNs = n
         \/ model[n] = NoEntries)
        => LengthOf(store[n]) = 0 /\ DOMAIN ItemsOf(store[n]) = {}

\* The first call of the run, a clear through c2, has emptied nsA, whose
\* entries c2 never wrote.
C10_Witness ==
    /\ Returned /\ ret.call.op = "clear" /\ ret.call.inst = "c2" /\ ret.res = NoneVal
    /\ calls = 1
    /\ LengthOf(StoredBefore["nsA"]) = 2
    /\ LengthOf(store["nsA"]) = 0

\* C11: contains is accurate: it returns true exactly when the last write of
\* the key (`model`) was a set, an update or an increment that wrote, and false
\* when the key was never written or was last removed by delete, pop or clear.
C11_ContainsAccurate ==
    [][\A t \in Tasks :
          Contains(t)
          => /\ ret'.task = t
             /\ ret'.res = BoolV(model[Ns(t)][call[t].key] # NoneVal)]_vars

\* The second call of the run, a contains in nsA, has returned false: the key,
\* stored at the start, has been removed by the first call.
C11_Witness ==
    /\ Returned /\ ret.call.op = "contains" /\ ret.res = BoolV(FALSE)
    /\ ReturnedNs = "nsA" /\ calls = 2
    /\ model["nsA"][ret.call.key] = NoneVal

\* C12: delete of an absent key raises nothing and leaves every entry of the
\* namespace, and its length, as they were; delete of a present key removes
\* that key and no other. No other namespace changes.
C12_Delete ==
    [][\A t \in Tasks :
          Delete(t) =>
            LET n == Ns(t)
                h == store[n]
                f == Field(t)
            IN  /\ ret'.task = t /\ ~IsError(ret'.res)
                /\ pc'[t] = "idle"
                /\ \A m \in Namespaces \ {n} : store'[m] = store[m]
                /\ IF hexists(h, f)
                   THEN /\ DOMAIN store'[n] = DOMAIN h \ {f}
                        /\ \A g \in DOMAIN store'[n] : store'[n][g] = h[g]
                   ELSE /\ store'[n] = h
                        /\ LengthOf(store'[n]) = LengthOf(h)
                        /\ ItemsOf(store'[n]) = ItemsOf(h)]_vars

\* A delete of a key that nsA no longer holds has returned, and the other
\* entry of nsA is still there.
C12_Witness ==
    /\ Returned /\ ret.call.op = "delete" /\ ret.res = IntV(0)
    /\ ReturnedNs = "nsA"
    /\ ~hexists(store["nsA"], _key_to_typestring(ret.call.key))
    /\ LengthOf(store["nsA"]) = 1

\* C13: get of an absent key returns exactly the default it was given (None
\* when none was given), raises nothing and does not create the key.
C13_GetDefault ==
    [][\A t \in Tasks :
          (Get(t) /\ ~hexists(store[Ns(t)], Field(t)))
          => /\ ret'.task = t
             /\ ret'.res = call[t].default
             /\ pc'[t] = "idle"
             /\ store' = store]_vars

\* A get with default 0 of a key that is absent has returned 0 and the key is
\* still absent.
C13_Witness ==
    /\ Returned /\ ret.call.op = "get" /\ ret.call.default = IntV(0)
    /\ ret.res = IntV(0)
    /\ ~hexists(store[ReturnedNs], _key_to_typestring(ret.call.key))

\* The current entries of a namespace: for each key the last value written and
\* not since removed.
ModelEntries(n) == [k \in {j \in Keys : model[n][j] # NoneVal} |-> model[n][k]]

\* C14: items and to_dict both return exactly the current entries of the
\* namespace, length returns their number, and to_dict returns what items
\* returns in the same state.
C14_ItemsToDictLength ==
    [][\A t \in Tasks :
          /\ Items(t) => /\ ret'.task = t
                         /\ ret'.res = [t |-> "items", v |-> ModelEntries(Ns(t))]
          /\ ToDict(t) => /\ ret'.task = t
                          /\ ret'.res = [t |-> "dict", v |-> ModelEntries(Ns(t))]
                          /\ ret'.res.v = ItemsOf(store[Ns(t)])
          /\ Length(t) => /\ ret'.task = t
                          /\ ret'.res = IntV(Cardinality(DOMAIN ModelEntries(Ns(t))))]_vars

\* A to_dict has returned the two entries that the update before it wrote
\* over those stored at the start.
C14_Witness ==
    /\ Returned /\ ret.call.op = "to_dict" /\ ret.res.t = "dict"
    /\ calls = 2
    /\ DOMAIN ret.res.v = Keys
    /\ ret.res.v[IntV(1)] = StrV(<<"x">>)
    /\ ret.res.v[StrV(<<"1">>)] = BoolV(TRUE)

\* Every order in which the elements of a set can be taken.
RECURSIVE Orders(_)
Orders(S) ==
    IF S = {} THEN {<<>>}
    ELSE UNION {{<<k>> \o o : o \in Orders(S \ {k})} : k \in S}

\* The hash after set(k, d[k]) for each key k of ks in turn.
RECURSIVE SetEach(_, _, _)
SetEach(h, d, ks) ==
    IF ks = <<>> THEN h
    ELSE SetEach(SetWrite(h, Head(ks), d[Head(ks)]), d, Tail(ks))

\* C15: update(mapping) leaves the namespace as set(k, v) for every pair of
\* the mapping would, in whatever order: new keys created, existing keys
\* overwritten, the others untouched. It does so in one step that is also its
\* return, so that no state holds only part of the mapping, and while an
\* update is inside its method no other step writes to its namespace.
C15_UpdateAsSets ==
    [][\A t \in Tasks :
          /\ Update(t) =>
                LET n == Ns(t)
                    d == call[t].items
                IN  /\ \A o \in Orders(DOMAIN d) : store'[n] = SetEach(store[n], d, o)
                    /\ \A k \in Keys \ DOMAIN d :
                          hget(store'[n], _key_to_typestring(k)) = hget(store[n], _key_to_typestring(k))
                    /\ \A m \in Namespaces \ {n} : store'[m] = store[m]
                    /\ ret'.task = t /\ ret'.res = NoneVal
                    /\ pc'[t] = "idle"
          /\ (Running(t, "update") /\ store'[Ns(t)] # store[Ns(t)]) => Update(t)]_vars

\* An update with the single pair (1, 1) has returned in nsB, where the call
\* before it had written the key "1": the key 1 has been created and the key
\* "1" is still there.
C15_Witness ==
    /\ Returned /\ ret.call.op = "update" /\ DOMAIN ret.call.items = {IntV(1)}
    /\ ReturnedNs = "nsB" /\ calls = 2
    /\ StoredValue("nsB", IntV(1)) = IntV(1)
    /\ StoredValue("nsB", StrV(<<"1">>)) # NoneVal

\* increment(key, amount) on a hash h that no other call writes to: what it
\* returns or raises, and the hash it leaves.
IncrementFrom(h, key, amount) ==
    LET value == GetResult(hget(h, _key_to_typestring(key)), NoneVal)
    IN  IF value = NoneVal THEN [res |-> KeyErrorV, hash |-> h]
        ELSE IF IsIntOrFloat(value)
             THEN [res |-> NoneVal, hash |-> SetWrite(h, key, PyAdd(value, amount))]
             ELSE [res |-> TypeErrorV, hash |-> h]

\* C16: decrement(key, amount) returns or raises what increment(key, -amount)
\* does and leaves the namespace as it does, the errors for an absent key and
\* for a non-numeric value included; an increment with a negative amount does
\* the same. So a step that ends a decrement by 5 leaves the stored number 5
\* lower, and after an increment by 2 that is the original minus 3.
C16_DecrementAsIncrement ==
    [][\A t \in Tasks :
          (/\ call[t].op \in {"increment", "decrement"}
           /\ ret'.task = t /\ ret'.res # ConnectionErrorV)
          => LET signed == IF call[t].op = "decrement"
                           THEN IntV(0 - call[t].amount.v) ELSE call[t].amount
                 out == IncrementFrom(store[Ns(t)], call[t].key, signed)
             IN  /\ ret'.res = out.res
                 /\ store'[Ns(t)] = out.hash
                 /\ out.res = NoneVal /\ IsNumber(StoredValue(Ns(t), call[t].key))
                    => Halves(AsDict(store'[Ns(t)])[call[t].key])
                         = Halves(StoredValue(Ns(t), call[t].key)) + Halves(signed)]_vars

\* The key 1 of nsA, stored as 1, holds -2 after an increment by 2 and a
\* decrement by 5 that has just returned: the original minus 3.
C16_Witness ==
    /\ Returned /\ ret.call.op = "decrement" /\ ret.call.amount = IntV(5)
    /\ ret.call.key = IntV(1) /\ ReturnedNs = "nsA" /\ ret.res = NoneVal
    /\ calls = 2
    /\ StoredBefore["nsA"][_key_to_typestring(IntV(1))] = _value_to_typestring(IntV(1))
    /\ StoredValue("nsA", IntV(1)) = IntV(-2)

\* What get and contains return for key k of hash h.
Seen(h, k) ==
    [get |-> GetResult(hget(h, _key_to_typestring(k)), NoneVal),
     contains |-> hexists(h, _key_to_typestring(k))]

\* C17: keys are told apart by type. The integer 1 and the string "1" are
\* stored under different fields; a step of a set, delete, pop, increment or
\* decrement on one key leaves what get and contains return for every other
\* key as it was; and a namespace in which both have been set has length 2.
C17_KeysByType ==
    [][/\ _key_to_typestring(IntV(1)) # _key_to_typestring(StrV(<<"1">>))
       /\ \A t \in Tasks : \A k \in Keys :
             (/\ InFlight(t)
              /\ call[t].op \in {"set", "delete", "pop", "increment", "decrement"}
              /\ store'[Ns(t)] # store[Ns(t)]
              /\ k # call[t].key)
             => Seen(store'[Ns(t)], k) = Seen(store[Ns(t)], k)
       /\ \A n \in Namespaces :
             (\A k \in Keys : model'[n][k] # NoneVal) => LengthOf(store'[n]) = 2]_vars

\* A set of the integer key 1 to True has returned in nsA: the string key "1"
\* still holds "x" and the namespace has two entries.
C17_Witness ==
    /\ Returned /\ ret.call.op = "set" /\ ret.call.key = IntV(1)
    /\ ret.call.value = BoolV(TRUE) /\ ReturnedNs = "nsA"
    /\ Seen(store["nsA"], IntV(1)) = [get |-> BoolV(TRUE), contains |-> TRUE]
    /\ Seen(store["nsA"], StrV(<<"1">>)) = [get |-> StrV(<<"x">>), contains |-> TRUE]
    /\ LengthOf(store["nsA"]) = 2

\* Task u is ahead of the waiting task t for the lock of t's namespace: it
\* holds it, or it has been waiting for it for longer.
Ahead(u, t) ==
    /\ u # t /\ pc[u] # "idle" /\ pc[t] = "wait" /\ Ns(u) = Ns(t)
    /\ \/ lock[Ns(t)] = u
       \/ \E i, j \in 1..Len(waiters[Ns(t)]) :
             i < j /\ waiters[Ns(t)][i] = u /\ waiters[Ns(t)][j] = t

\* C18: locking is per namespace. A waiting call is never held back by a call
\* of another namespace: either its lock is free and it is the next to get it,
\* or a call of its own namespace is ahead of it. And a step of a task (the
\* one whose position changes) changes no entry, lock or queue of a namespace
\* other than that of its cache; clear empties its own namespace only.
C18_PerNamespace ==
    /\ [](\A t \in Tasks : pc[t] = "wait" =>
            \/ lock[Ns(t)] = "free" /\ Head(waiters[Ns(t)]) = t
            \/ \E u \in Tasks : Ahead(u, t))
    /\ [][\A t \in Tasks :
            pc'[t] # pc[t]
            => \A m \in Namespaces \ {NamespaceOf(InstanceOf(t))} :
                  /\ store'[m] = store[m]
                  /\ lock'[m] = lock[m]
                  /\ waiters'[m] = waiters[m]]_vars

\* A clear of nsA has returned and nsA is empty, while nsB still holds the
\* entry the call before wrote there.
C18_Witness ==
    /\ Returned /\ ret.call.op = "clear" /\ ReturnedNs = "nsA" /\ ret.res = NoneVal
    /\ LengthOf(store["nsA"]) = 0
    /\ LengthOf(store["nsB"]) = 1
    /\ model["nsB"] # NoEntries

\* C19: the calls on one namespace are served first come, first served. A
\* task that is ahead of another for the lock stays ahead until its own call
\* has ended; a waiting task leaves the queue, and so issues its first store
\* command, only when no task is ahead of it; and only a call that is inside
\* its method writes to the namespace. So the task that started waiting first
\* performs all its store commands before the other performs any.
C19_FirstComeFirstServed ==
    [][/\ \A t, u \in Tasks :
             (Ahead(t, u) /\ pc'[t] # "idle") => Ahead(t, u)'
       /\ \A u \in Tasks :
             (pc[u] = "wait" /\ pc'[u] # "wait")
             => /\ ~\E t \in Tasks : Ahead(t, u)
                /\ lock'[Ns(u)] = u
       /\ \A n \in Namespaces :
             store'[n] # store[n] => \E t \in Tasks : InFlight(t) /\ Ns(t) = n /\ lock[n] = t]_vars

\* t1 has returned from a pop, both of whose commands it has performed,
\* while t2 has been waiting for the lock of the same namespace; t2 is now the
\* next to get it.
C19_Witness ==
    /\ Returned /\ ret.task = "t1" /\ ret.call.op = "pop" /\ ~IsError(ret.res)
    /\ calls = 2
    /\ pc["t2"] = "wait" /\ waiters["nsA"] = <<"t2">>
    /\ lock["nsA"] = "free"

\* C20: a stored value is handed out by one pop only. Two pops of the same
\* key of a namespace are never both between their get and their delete; and
\* the step that ends a pop returns the stored value exactly when the key is
\* still an entry, which it then removes, and the default otherwise. So of
\* several concurrent pops of a present key the first to hold the lock returns
\* the value and every other returns its default.
C20_PopOnce ==
    /\ [](\A t, u \in Tasks :
            (/\ t # u /\ pc[t] = "pop_delete" /\ pc[u] = "pop_delete"
             /\ Ns(t) = Ns(u))
            => call[t].key # call[u].key)
    /\ [][\A t \in Tasks :
            PopDelete(t) =>
              LET n == Ns(t)
                  k == call[t].key
              IN  /\ ret'.task = t
                  /\ ret'.res = IF model[n][k] # NoneVal THEN model[n][k] ELSE call[t].default
                  /\ model'[n][k] = NoneVal
                  /\ ~hexists(store'[n], Field(t))]_vars

\* A pop of the key 1 of nsA has returned the 1 stored there while another
\* pop on nsA, made before the first returned, waits for the lock.
C20_Witness ==
    /\ Returned /\ ret.call.op = "pop" /\ ret.call.key = IntV(1) /\ ret.res = IntV(1)
    /\ ReturnedNs = "nsA" /\ calls = 2
    /\ \E u \in Tasks : pc[u] = "wait" /\ call[u].op = "pop" /\ Ns(u) = "nsA"

====
